---- MODULE Spec2Model ----
(***************************************************************************)
(* Verification model of my-library-app: the Open Library / Google Books  *)
(* adapters (book-service), the search and pagination hooks, and the      *)
(* authentication flows (auth context, protected route, login page, the   *)
(* auth-state cache sync).                                                 *)
(*                                                                         *)
(* The module holds several independent components.  Each component has   *)
(* its own variables, an Init predicate, an Idle predicate (the component *)
(* parked in one of its initial states) and a Next action.  One           *)
(* specification per component runs that component while the others stay  *)
(* parked.                                                                 *)
(***************************************************************************)
EXTENDS Integers, Sequences, FiniteSets, TLC

VARIABLES
  doc,          \* transform: the OpenLibraryDoc handed to the adapter
  volume,       \* transform: the Volume the adapter produced (or NoVolume)
  svcPc,        \* searchBooks: position of the async function
  svcAdapter,   \* searchBooks: which of the three searchBooks is running
  svcUrl,       \* searchBooks: the query parameters of the request URL
  svcResponse,  \* searchBooks: the HTTP response fetch resolved to
  svcRaw,       \* searchBooks: rawData, the body response.json() resolved to
  svcResult,    \* searchBooks: how the returned promise settled
  pgHook,       \* search hooks: which hook is mounted
  pgAdapter,    \* search hooks: the book-service the hook imports
  pgOptions,    \* search hooks: the options passed to the hook
  catalogue,    \* search hooks: the remote catalogue matching the query
  pages,        \* search hooks: data.pages of the query cache entry
  pgFetching,   \* search hooks: the pageParam of the request in flight
  pgError,      \* search hooks: the query is in the error state
  requests,     \* search hooks: SearchOptions of every queryFn invocation
  provider,     \* auth context: the session held by the auth provider
  ctxSession,   \* auth context: useState session of AuthContextProvider
  ctxSubscribed,\* auth context: the onAuthStateChange subscription is active
  ctxGetSession,\* auth context: the pending initial getSession() and its value
  history,      \* router: the browser history stack, current location last
  logoutPc,     \* auth context: position of handleLogout
  loginPc,      \* auth context: position of handleLogin
  toast,        \* auth context: the last toast.error message
  supabase,     \* auth cache: the session held by the auth provider
  queryData,    \* auth cache: the query client's data, by query key
  syncSubscribed, \* auth cache: useAuthStateSync's subscription is active
  syncEffect,   \* auth cache: position of useAuthStateSync's effect
  callbackLog,  \* auth cache: the sessions the sync callback was called with
  sessionFetch, \* auth cache: useSession's queryFn in flight and its value
  userFetch,    \* auth cache: useUser's queryFn in flight and its value
  authSession,  \* auth hooks: the session held by the auth provider
  composed,     \* auth hooks: query client and mutations under the composed useAuth
  monolithic,   \* auth hooks: query client and mutations under the monolithic useAuth
  loaderUser,   \* route loaders: the user held by the auth provider
  loaderNav,    \* route loaders: the navigation whose clientLoader is running
  loaderHistory \* route loaders: the routes rendered so far, with their loader data

transformVars == <<doc, volume>>
svcVars == <<svcPc, svcAdapter, svcUrl, svcResponse, svcRaw, svcResult>>

pgVars == <<pgHook, pgAdapter, pgOptions, catalogue, pages, pgFetching, pgError, requests>>

ctxVars == <<provider, ctxSession, ctxSubscribed, ctxGetSession, history, logoutPc,
             loginPc, toast>>

cacheVars == <<supabase, queryData, syncSubscribed, syncEffect, callbackLog, sessionFetch,
               userFetch>>

hookVars == <<authSession, composed, monolithic>>
loaderVars == <<loaderUser, loaderNav, loaderHistory>>

vars == <<doc, volume, svcPc, svcAdapter, svcUrl, svcResponse, svcRaw, svcResult,
          pgHook, pgAdapter, pgOptions, catalogue, pages, pgFetching, pgError, requests,
          provider, ctxSession, ctxSubscribed, ctxGetSession, history, logoutPc,
          loginPc, toast,
          supabase, queryData, syncSubscribed, syncEffect, callbackLog, sessionFetch, userFetch,
          authSession, composed, monolithic,
          loaderUser, loaderNav, loaderHistory>>

(***************************************************************************)
(* Generic helpers                                                         *)
(***************************************************************************)

\* Array.prototype.slice(0, n)
SliceTo(s, n) == SubSeq(s, 1, IF Len(s) < n THEN Len(s) ELSE n)

\* Array.prototype.map
MapSeq(F(_), s) == [i \in 1..Len(s) |-> F(s[i])]

\* all sequences over S of length 0..n
SeqUpTo(S, n) == UNION {[1..k -> S] : k \in 0..n}

(***************************************************************************)
(* Component 1: transformOpenLibraryDocToVolume                            *)
(***************************************************************************)

\* bound: longest isbn array of a document
MaxIsbns == 6

\* doc.isbn?.slice(0, 5) and doc.subject?.slice(0, 5)
IsbnLimit == 5

\* ISBN strings the API may return: 13, 10 and 9 characters long
IsbnPool == {"9780134685991", "0134685997", "013468599"}

\* A document key is kept as the list doc.key.split("/") yields:
\* "/works/OL1W" is <<"", "works", "OL1W">>.
KeyOf(i) == <<"", "works", "OL" \o ToString(i) \o "W">>

\* the key string: segments joined by "/"
RECURSIVE JoinKey(_)
JoinKey(key) ==
  IF Len(key) = 0 THEN ""
  ELSE IF Len(key) = 1 THEN key[1]
  ELSE key[1] \o "/" \o JoinKey(Tail(key))

\* doc.key.split("/").pop()
LastSegment(key) == key[Len(key)]

\* an optional field: undefined, or a value
Undefined == [defined |-> FALSE, value |-> <<>>]
UndefinedNum == [defined |-> FALSE, value |-> 0]
Defined(v) == [defined |-> TRUE, value |-> v]

\* the ternary with its branches swapped
IsbnTypeSwapped(isbn) == IF Len(isbn) = 13 THEN "ISBN_10" ELSE "ISBN_13"

\* isbn.length === 13 ? "ISBN_13" : "ISBN_10"
IsbnType(isbn) == IF Len(isbn) = 13 THEN "ISBN_13" ELSE "ISBN_10"

\* (isbn) => ({ type: ..., identifier: isbn })
IndustryIdentifier(isbn) == [type |-> IsbnType(isbn), identifier |-> isbn]

\* doc.isbn?.slice(0, 5).map(...)
IndustryIdentifiers(isbn) ==
  IF isbn.defined
    THEN Defined(MapSeq(IndustryIdentifier, SliceTo(isbn.value, IsbnLimit)))
    ELSE Undefined

TransformOpenLibraryDocToVolume(d) ==
  [ id |-> IF LastSegment(d.key) # "" THEN LastSegment(d.key) ELSE JoinKey(d.key),
    title |-> d.title,
    industryIdentifiers |-> IndustryIdentifiers(d.isbn),
    selfLink |-> "https://openlibrary.org" \o JoinKey(d.key) ]

NoVolume == [id |-> "", title |-> "", industryIdentifiers |-> Undefined, selfLink |-> ""]

DocInputs ==
  [ key : {KeyOf(1)},
    title : {"Clean Code"},
    isbn : {Undefined} \cup {Defined(s) : s \in SeqUpTo(IsbnPool, MaxIsbns)} ]

TransformInit ==
  /\ doc \in DocInputs
  /\ volume = NoVolume

TransformIdle ==
  /\ doc = [key |-> KeyOf(1), title |-> "Clean Code", isbn |-> Undefined]
  /\ volume = NoVolume

\* the adapter maps one validated document
Transform ==
  /\ volume = NoVolume
  /\ volume' = TransformOpenLibraryDocToVolume(doc)
  /\ UNCHANGED doc


\* v1 (book-service.ts): title: doc.title || "Untitled"
TransformOpenLibraryDocToVolumeV1(d) ==
  [TransformOpenLibraryDocToVolume(d) EXCEPT
     !.title = IF d.title # "" THEN d.title ELSE "Untitled"]

(***************************************************************************)
(* Component 2: searchBooks (Google Books, Open Library, bookService)      *)
(***************************************************************************)

Adapters == {"google", "openlibrary", "bookService"}

\* documents of an Open Library response; the second one has an empty title
DocA == [key |-> KeyOf(1), title |-> "Clean Code", isbn |-> Defined(<<"9780134685991">>)]
DocB == [key |-> KeyOf(2), title |-> "", isbn |-> Undefined]

\* bodies response.json() may produce for the Google Books endpoint
GoogleRawPool ==
  [ kind : {Undefined, Defined("books#volumes")},
    totalItems : {UndefinedNum, Defined(-1), Defined(2)},
    items : {Undefined, Defined(<<"vol1", "vol2">>)} ]

\* bodies response.json() may produce for the Open Library endpoint
OpenLibraryRawPool ==
  [ numFound : {UndefinedNum, Defined(2)},
    num_found : {UndefinedNum, Defined(2)},
    docs : {Undefined, Defined(<<>>), Defined(<<DocA>>), Defined(<<DocB, DocA>>)} ]

RawPool(adapter) == IF adapter = "google" THEN GoogleRawPool ELSE OpenLibraryRawPool

\* volumeSearchResponseSchema: kind required string, totalItems non-negative
\* integer, items optional array
VolumeSearchResponseSchema(raw) ==
  /\ raw.kind.defined
  /\ raw.totalItems.defined
  /\ raw.totalItems.value >= 0

\* openLibrarySearchResponseSchema (numFound, docs)
OpenLibrarySearchResponseSchema(raw) == raw.numFound.defined /\ raw.docs.defined

\* searchBookResponseSchema (num_found, docs)
SearchBookResponseSchema(raw) == raw.num_found.defined /\ raw.docs.defined

\* schema.safeParse(rawData).success
SafeParseSuccess(adapter, raw) ==
  CASE adapter = "google"      -> VolumeSearchResponseSchema(raw)
    [] adapter = "openlibrary" -> OpenLibrarySearchResponseSchema(raw)
    [] OTHER                   -> SearchBookResponseSchema(raw)

\* Array.prototype.filter
RECURSIVE FilterSeq(_, _)
FilterSeq(P(_), s) ==
  IF s = <<>> THEN <<>>
  ELSE IF P(Head(s)) THEN <<Head(s)>> \o FilterSeq(P, Tail(s))
       ELSE FilterSeq(P, Tail(s))

\* (doc) => doc.title
HasTitle(d) == d.title # ""

\* book-service.ts: items: response.docs.map(transformOpenLibraryDocToVolume)
TransformOpenLibraryResponseV1(response) ==
  [ kind |-> "openlibrary#volumes",
    totalItems |-> response.numFound.value,
    items |-> Defined(MapSeq(TransformOpenLibraryDocToVolumeV1, response.docs.value)) ]

\* bookService: items: response.docs.filter((doc) => doc.title).map(...)
TransformOpenLibraryResponse(response) ==
  [ kind |-> "openlibrary#volumes",
    totalItems |-> response.num_found.value,
    items |-> Defined(MapSeq(TransformOpenLibraryDocToVolume,
                             FilterSeq(HasTitle, response.docs.value))) ]

\* an Error object / a thrown value that is not an Error
ErrorOf(parts) == [isError |-> TRUE, message |-> parts]
ThrownPool == {ErrorOf(<<"Failed to fetch">>), [isError |-> FALSE, message |-> <<"boom">>]}

\* the thrown value always replaced by the generic Error
CaughtErrorGeneric(thrown) == ErrorOf(<<"Unknown error occurred while searching books">>)

\* catch (error): error instanceof Error ? error : new Error("Unknown error ...")
CaughtError(thrown) ==
  IF thrown.isError THEN thrown
  ELSE ErrorOf(<<"Unknown error occurred while searching books">>)

Pending == [state |-> "pending"]
ResolvedOk(v) == [state |-> "resolved", ok |-> TRUE, value |-> v]
ResolvedErr(e) == [state |-> "resolved", ok |-> FALSE, error |-> e]
Rejected(e) == [state |-> "rejected", error |-> e]

\* a parse failure escaping as an exception instead of an error result
ParseFailureThrown(adapter, raw) ==
  IF ~SafeParseSuccess(adapter, raw)
    THEN Rejected(ErrorOf(<<"Invalid API response: ", "ZodError">>))
    ELSE ResolvedOk(raw)

\* the part of searchBooks after `await response.json()`
AfterJson(adapter, raw) ==
  IF ~SafeParseSuccess(adapter, raw)
    THEN ResolvedErr(ErrorOf(<<"Invalid API response: ", "ZodError">>))
    ELSE CASE adapter = "google"      ->
                ResolvedOk([kind |-> raw.kind.value, totalItems |-> raw.totalItems.value,
                            items |-> raw.items])
           [] adapter = "openlibrary" -> ResolvedOk(TransformOpenLibraryResponseV1(raw))
           [] OTHER                   -> ResolvedOk(TransformOpenLibraryResponse(raw))

\* buildSearchQuery
BuildSearchQuery(options) ==
  IF options.field.defined
    THEN <<options.field.value, ":", options.query>>
    ELSE <<options.query>>

\* buildApiUrl: the query parameters appended to the base URL
\* (only bookService appends `sort`)
BuildApiUrl(adapter, options) ==
  [ q |-> BuildSearchQuery(options),
    sort |-> IF adapter = "bookService" THEN options.sort ELSE Undefined,
    limit |-> options.maxResults,
    offset |-> options.startIndex ]

SearchOptionsPool ==
  [ query : {"dune", "tolkien"},
    field : {Undefined, Defined("title")},
    sort : {Undefined, Defined("new")},
    maxResults : {UndefinedNum, Defined(20)},
    startIndex : {UndefinedNum, Defined(0)} ]

NoUrl == [q |-> <<>>, sort |-> Undefined, limit |-> UndefinedNum, offset |-> UndefinedNum]
NoResponse == [ok |-> FALSE, status |-> 0]
NoRaw == [read |-> FALSE]
HttpResponses == {[ok |-> TRUE, status |-> 200], [ok |-> FALSE, status |-> 404],
                  [ok |-> FALSE, status |-> 500]}

SvcInit ==
  /\ svcPc = "idle"
  /\ svcAdapter \in Adapters
  /\ svcUrl = NoUrl
  /\ svcResponse = NoResponse
  /\ svcRaw = NoRaw
  /\ svcResult = Pending

SvcIdle ==
  /\ svcPc = "idle"
  /\ svcAdapter = "google"
  /\ svcUrl = NoUrl
  /\ svcResponse = NoResponse
  /\ svcRaw = NoRaw
  /\ svcResult = Pending

\* searchBooks(options) up to `await fetch(url)`
SearchBooks(options) ==
  /\ svcPc = "idle"
  /\ svcUrl' = BuildApiUrl(svcAdapter, options)
  /\ svcPc' = "fetch"
  /\ UNCHANGED <<svcAdapter, svcResponse, svcRaw, svcResult>>

\* fetch resolves; a response that is not ok returns the status error
FetchResolves(response) ==
  /\ svcPc = "fetch"
  /\ svcResponse' = response
  /\ IF ~response.ok
       THEN /\ svcResult' = ResolvedErr(ErrorOf(<<"API request failed with status ",
                                                  response.status>>))
            /\ svcPc' = "done"
       ELSE /\ svcPc' = "json"
            /\ UNCHANGED svcResult
  /\ UNCHANGED <<svcAdapter, svcUrl, svcRaw>>

\* fetch rejects: the catch block returns the error result
FetchThrows(thrown) ==
  /\ svcPc = "fetch"
  /\ svcResult' = ResolvedErr(CaughtError(thrown))
  /\ svcPc' = "done"
  /\ UNCHANGED <<svcAdapter, svcUrl, svcResponse, svcRaw>>

\* response.json() resolves: validate, transform, return
JsonResolves(raw) ==
  /\ svcPc = "json"
  /\ svcRaw' = [read |-> TRUE, data |-> raw]
  /\ svcResult' = AfterJson(svcAdapter, raw)
  /\ svcPc' = "done"
  /\ UNCHANGED <<svcAdapter, svcUrl, svcResponse>>

\* response.json() rejects: the catch block returns the error result
JsonThrows(thrown) ==
  /\ svcPc = "json"
  /\ svcResult' = ResolvedErr(CaughtError(thrown))
  /\ svcPc' = "done"
  /\ UNCHANGED <<svcAdapter, svcUrl, svcResponse, svcRaw>>


(***************************************************************************)
(* Component 3: the search hooks and the pages they accumulate             *)
(***************************************************************************)

\* bound: documents in the remote catalogue
MaxCatalogue == 3

\* bound: largest maxResults passed to a hook
MaxPageSize == 2

\* bound: queryFn invocations followed per search
MaxRequests == 4

InfiniteHooks == {"useInfiniteBookSearch", "useInfiniteBooksByTitle"}
Hooks == InfiniteHooks \cup {"useBookSearch", "useBookSearchByTitle"}

\* the implementation behind the hook's import: the title hooks call
\* bookService.searchByTitle, the others the exported searchBooks
AdaptersOf(hook) ==
  IF hook \in {"useInfiniteBooksByTitle", "useBookSearchByTitle"}
    THEN {"bookService"}
    ELSE {"google", "openlibrary"}

\* catalogues of n documents with distinct keys; a document may lack a title
Catalogues ==
  UNION { { [i \in 1..n |-> [key |-> KeyOf(i),
                              title |-> IF i \in titled THEN "Dune" ELSE "",
                              isbn |-> Undefined]]
            : titled \in SUBSET (1..n) }
          : n \in 0..MaxCatalogue }

MinOf(a, b) == IF a < b THEN a ELSE b

\* the documents the API returns for offset/limit (no limit: all of them)
ApiWindow(cat, startIndex, maxResults) ==
  LET offset == IF startIndex.defined THEN startIndex.value ELSE 0
      last == IF maxResults.defined
                THEN MinOf(offset + maxResults.value, Len(cat))
                ELSE Len(cat)
  IN SubSeq(cat, offset + 1, last)

\* a Google Books volume of the catalogue
GoogleVolume(d) ==
  [ id |-> LastSegment(d.key), title |-> d.title,
    industryIdentifiers |-> Undefined,
    selfLink |-> "https://www.googleapis.com/books/v1/volumes/" \o LastSegment(d.key) ]

\* the body the API answers a request with
ApiBody(adapter, cat, options) ==
  LET window == ApiWindow(cat, options.startIndex, options.maxResults) IN
  IF adapter = "google"
    THEN [ kind |-> Defined("books#volumes"),
           totalItems |-> Defined(Len(cat)),
           items |-> IF window = <<>> THEN Undefined
                     ELSE Defined(MapSeq(GoogleVolume, window)) ]
    ELSE [ numFound |-> Defined(Len(cat)),
           num_found |-> Defined(Len(cat)),
           docs |-> Defined(window) ]

\* the gate without the length test
EnabledUnlessFalse(enabled, query) == ~(enabled.defined /\ enabled.value = FALSE)

\* enabled: enabled !== false && query.length > 0
HookEnabled(enabled, query) ==
  ~(enabled.defined /\ enabled.value = FALSE) /\ Len(query) > 0

\* page.items?.length ?? 0
ItemsLength(page) == IF page.items.defined THEN Len(page.items.value) ELSE 0

\* allPages.reduce((acc, page) => acc + (page.items?.length ?? 0), 0)
RECURSIVE LoadedItems(_)
LoadedItems(allPages) ==
  IF allPages = <<>> THEN 0
  ELSE ItemsLength(Head(allPages)) + LoadedItems(Tail(allPages))

\* the comparison against the last page's own length only
GetNextPageParamLastPageOnly(lastPage, allPages) ==
  IF ItemsLength(lastPage) < lastPage.totalItems
    THEN Defined(LoadedItems(allPages))
    ELSE UndefinedNum

\* getNextPageParam: loadedItems < lastPage.totalItems ? loadedItems : undefined
GetNextPageParam(lastPage, allPages) ==
  IF LoadedItems(allPages) < lastPage.totalItems
    THEN Defined(LoadedItems(allPages))
    ELSE UndefinedNum

\* hasNextPage of useInfiniteQuery
HasNextPage ==
  /\ pages # <<>>
  /\ GetNextPageParam(pages[Len(pages)], pages).defined

\* data?.pages.flatMap((page) => page.items ?? []) ?? []
RECURSIVE FlatItems(_)
FlatItems(ps) ==
  IF ps = <<>> THEN <<>>
  ELSE (IF Head(ps).items.defined THEN Head(ps).items.value ELSE <<>>)
       \o FlatItems(Tail(ps))

AllBooks == FlatItems(pages)

\* the page parameter dropped: every request carries the hook's own options
QueryFnOptionsNoPageParam(hook, options, pageParam) ==
  [ query |-> options.query, field |-> options.field, sort |-> options.sort,
    maxResults |-> options.maxResults, startIndex |-> options.startIndex ]

\* the SearchOptions the hook's queryFn passes to the service
QueryFnOptions(hook, options, pageParam) ==
  CASE hook = "useInfiniteBookSearch" ->
         [ query |-> options.query, field |-> options.field, sort |-> options.sort,
           maxResults |-> options.maxResults, startIndex |-> pageParam ]
    [] hook = "useInfiniteBooksByTitle" ->
         [ query |-> options.query, field |-> Defined("title"), sort |-> Undefined,
           maxResults |-> options.maxResults, startIndex |-> pageParam ]
    [] hook = "useBookSearch" ->
         [ query |-> options.query, field |-> options.field, sort |-> options.sort,
           maxResults |-> options.maxResults, startIndex |-> options.startIndex ]
    [] OTHER ->
         [ query |-> options.query, field |-> Defined("title"), sort |-> Undefined,
           maxResults |-> options.maxResults, startIndex |-> options.startIndex ]

Queries == {"", "dune"}

HookOptions ==
  { o \in [ query : Queries,
            field : {Undefined, Defined("author")},
            sort : {Undefined, Defined("new")},
            maxResults : {Defined(n) : n \in 1..MaxPageSize},
            startIndex : {UndefinedNum},
            enabled : {Undefined, Defined(TRUE), Defined(FALSE)} ]
      : o.field.defined = o.sort.defined }

NotFetching == [active |-> FALSE, options |-> <<>>]

PgInit ==
  /\ pgHook \in Hooks
  /\ pgAdapter \in AdaptersOf(pgHook)
  /\ pgOptions \in HookOptions
  /\ catalogue \in Catalogues
  /\ pages = <<>>
  /\ pgFetching = NotFetching
  /\ pgError = FALSE
  /\ requests = <<>>

PgIdle ==
  /\ pgHook = "useBookSearch"
  /\ pgAdapter = "google"
  /\ pgOptions = [query |-> "", field |-> Undefined, sort |-> Undefined,
                  maxResults |-> Defined(1), startIndex |-> UndefinedNum,
                  enabled |-> Undefined]
  /\ catalogue = <<>>
  /\ pages = <<>>
  /\ pgFetching = NotFetching
  /\ pgError = FALSE
  /\ requests = <<>>

\* the query function is invoked with a page parameter
InvokeQueryFn(pageParam) ==
  LET options == QueryFnOptions(pgHook, pgOptions, pageParam) IN
  /\ pgFetching' = [active |-> TRUE, options |-> options]
  /\ requests' = Append(requests, options)
  /\ pgError' = FALSE

\* the enabled query has no data: the first page is fetched (initialPageParam: 0)
InitialFetch ==
  /\ HookEnabled(pgOptions.enabled, pgOptions.query)
  /\ pages = <<>>
  /\ ~pgFetching.active
  /\ ~pgError
  /\ Len(requests) < MaxRequests
  /\ InvokeQueryFn(Defined(0))
  /\ UNCHANGED <<pgHook, pgAdapter, pgOptions, catalogue, pages>>

\* fetchNextPage(), called by the Load More button and the scroll sentinel
\* while hasNextPage && !isFetchingNextPage
FetchNextPage ==
  /\ pgHook \in InfiniteHooks
  /\ HasNextPage
  /\ ~pgFetching.active
  /\ Len(requests) < MaxRequests
  /\ InvokeQueryFn(GetNextPageParam(pages[Len(pages)], pages))
  /\ UNCHANGED <<pgHook, pgAdapter, pgOptions, catalogue, pages>>

\* the request settles with the service's result: the page is appended, or
\* the query function throws result.error
RequestResolves ==
  /\ pgFetching.active
  /\ LET result == AfterJson(pgAdapter, ApiBody(pgAdapter, catalogue, pgFetching.options)) IN
       IF result.ok
         THEN pages' = Append(pages, result.value) /\ pgError' = FALSE
         ELSE pgError' = TRUE /\ UNCHANGED pages
  /\ pgFetching' = NotFetching
  /\ UNCHANGED <<pgHook, pgAdapter, pgOptions, catalogue, requests>>

\* the service returns an error result (network failure, HTTP status)
RequestFails ==
  /\ pgFetching.active
  /\ pgError' = TRUE
  /\ pgFetching' = NotFetching
  /\ UNCHANGED <<pgHook, pgAdapter, pgOptions, catalogue, pages, requests>>

\* the query (or title) changes: a new query key with an empty cache entry
\* and its own catalogue
ChangeQuery(q, cat) ==
  /\ q # pgOptions.query
  /\ pgOptions' = [pgOptions EXCEPT !.query = q]
  /\ catalogue' = cat
  /\ pages' = <<>>
  /\ pgFetching' = NotFetching
  /\ pgError' = FALSE
  /\ requests' = <<>>
  /\ UNCHANGED <<pgHook, pgAdapter>>


(***************************************************************************)
(* Component 4: AuthContextProvider, ProtectedRoute, LoginPage             *)
(***************************************************************************)

\* bound: entries of the browser history stack
MaxHistory == 3

\* bound: distinct tokens the provider issues
MaxTokens == 2

\* Session | null
NullSession == [token |-> 0, user |-> "-"]
Sessions == [token : 1..MaxTokens, user : {"alice"}]
IsNull(session) == session.token = 0

NoPending == [defined |-> FALSE, value |-> NullSession]

\* a location: pathname and the redirectTo query parameter
Location(path, redirectTo) == [path |-> path, redirectTo |-> redirectTo]
Paths == {"/", "/login", "/dashboard"}
RedirectParams == {Undefined, Defined(""), Defined("/dashboard"), Defined("/")}

CurrentLocation == history[Len(history)]

\* navigate(to, { replace: true }) / <Navigate to replace />
ReplaceTop(h, loc) == [h EXCEPT ![Len(h)] = loc]

\* the guard inverted
ProtectedRouteInverted(session) ==
  IF ~IsNull(session)
    THEN [element |-> "Navigate", to |-> "/login", replace |-> TRUE]
    ELSE [element |-> "children", to |-> "", replace |-> FALSE]

\* ProtectedRoute: if (!session) return <Navigate to="/login" replace />
ProtectedRoute(session) ==
  IF IsNull(session)
    THEN [element |-> "Navigate", to |-> "/login", replace |-> TRUE]
    ELSE [element |-> "children", to |-> "", replace |-> FALSE]

\* searchParams.get("redirectTo") || "/dashboard"
RedirectTarget(redirectTo) ==
  IF redirectTo.defined /\ redirectTo.value # "" THEN redirectTo.value ELSE "/dashboard"

\* the redirectTo parameter ignored
LoginPageAlwaysDashboard(session, redirectTo) ==
  IF ~IsNull(session)
    THEN [element |-> "null", navigate |-> Defined("/dashboard"), replace |-> TRUE]
    ELSE [element |-> "LoginForm", navigate |-> Undefined, replace |-> FALSE]

\* LoginPage: the effect navigates when there is a session, and the form is
\* rendered only when there is none
LoginPage(session, redirectTo) ==
  IF ~IsNull(session)
    THEN [element |-> "null", navigate |-> Defined(RedirectTarget(redirectTo)),
          replace |-> TRUE]
    ELSE [element |-> "LoginForm", navigate |-> Undefined, replace |-> FALSE]

\* handleLogin: const redirectUrl = redirectTo || "/dashboard"
HandleLoginRedirectUrl(redirectTo) ==
  IF redirectTo.defined /\ redirectTo.value # "" THEN redirectTo.value ELSE "/dashboard"

\* auth-service buildRedirectUrl: redirectTo || `${window.location.origin}/`
BuildRedirectUrl(redirectTo) ==
  IF redirectTo.defined /\ redirectTo.value # "" THEN redirectTo.value ELSE "/"

\* the useAuth a component is bound to: the context's, or the hooks' one
\* whose login is the auth-service's signInWithOAuth
UseAuthImpls == {"context", "hooks"}

\* the redirect destination LoginForm.handleLogin hands to login(): it passes
\* the provider only, no destination read from the URL
LoginFormRedirectTo(loc) == Undefined

NoToast == [shown |-> FALSE, message |-> ""]

\* the application (re)starts at a location: useState(null), the effect
\* calls getSession() and subscribes
MountAt ==
  /\ ctxSession' = NullSession
  /\ ctxGetSession' = [defined |-> TRUE, value |-> provider']
  /\ ctxSubscribed' = TRUE
  /\ loginPc' = "idle"
  /\ toast' = NoToast

CtxInit ==
  /\ provider \in {NullSession} \cup Sessions
  /\ ctxSession = NullSession
  /\ ctxGetSession = [defined |-> TRUE, value |-> provider]
  /\ ctxSubscribed = TRUE
  /\ history \in {<<Location(path, Undefined)>> : path \in Paths}
  /\ logoutPc = "idle"
  /\ loginPc = "idle"
  /\ toast = NoToast

CtxIdle ==
  /\ provider = NullSession
  /\ ctxSession = NullSession
  /\ ctxGetSession = [defined |-> TRUE, value |-> NullSession]
  /\ ctxSubscribed = TRUE
  /\ history = <<Location("/", Undefined)>>
  /\ logoutPc = "idle"
  /\ loginPc = "idle"
  /\ toast = NoToast

\* the user opens a URL of the application (a full page load)
Visit(path, redirectTo) ==
  /\ Len(history) < MaxHistory
  /\ UNCHANGED provider
  /\ history' = Append(history, Location(path, redirectTo))
  /\ MountAt
  /\ logoutPc' = "idle"

\* supabase.auth.getSession().then(({ data: { session } }) => setSession(session))
GetSessionResolves ==
  /\ ctxGetSession.defined
  /\ ctxSession' = ctxGetSession.value
  /\ ctxGetSession' = NoPending
  /\ UNCHANGED <<provider, ctxSubscribed, history, logoutPc, loginPc, toast>>

\* the provider's session changes (token refresh, sign-in or sign-out in
\* another tab) and the subscription callback runs: setSession(session)
AuthStateChange(session) ==
  /\ session # provider
  /\ provider' = session
  /\ ctxSession' = IF ctxSubscribed THEN session ELSE ctxSession
  /\ UNCHANGED <<ctxSubscribed, ctxGetSession, history, logoutPc, loginPc, toast>>

\* /dashboard renders <ProtectedRoute>: the Navigate element replaces the
\* current history entry
ProtectedRouteNavigate ==
  /\ CurrentLocation.path = "/dashboard"
  /\ ProtectedRoute(ctxSession).element = "Navigate"
  /\ history' = ReplaceTop(history, Location(ProtectedRoute(ctxSession).to, Undefined))
  /\ UNCHANGED <<provider, ctxSession, ctxSubscribed, ctxGetSession, logoutPc, loginPc, toast>>

\* /login renders LoginPage: the effect navigates when there is a session
LoginPageNavigate ==
  /\ CurrentLocation.path = "/login"
  /\ LoginPage(ctxSession, CurrentLocation.redirectTo).navigate.defined
  /\ history' = ReplaceTop(history,
        Location(LoginPage(ctxSession, CurrentLocation.redirectTo).navigate.value, Undefined))
  /\ UNCHANGED <<provider, ctxSession, ctxSubscribed, ctxGetSession, logoutPc, loginPc, toast>>

\* "Continue with Github": LoginForm.handleLogin -> login up to
\* `await supabase.auth.signInWithOAuth(...)`; loginPc holds the path the
\* provider is asked to redirect to
ClickLogin(useAuth) ==
  /\ CurrentLocation.path = "/login"
  /\ LoginPage(ctxSession, CurrentLocation.redirectTo).element = "LoginForm"
  /\ loginPc = "idle"
  /\ loginPc' = IF useAuth = "context"
                  THEN HandleLoginRedirectUrl(LoginFormRedirectTo(CurrentLocation))
                  ELSE BuildRedirectUrl(LoginFormRedirectTo(CurrentLocation))
  /\ UNCHANGED <<provider, ctxSession, ctxSubscribed, ctxGetSession, history, logoutPc, toast>>

\* signInWithOAuth returns an error: toast.error(error.message)
SignInFails ==
  /\ loginPc \notin {"idle"}
  /\ loginPc' = "idle"
  /\ toast' = [shown |-> TRUE, message |-> "OAuth error"]
  /\ UNCHANGED <<provider, ctxSession, ctxSubscribed, ctxGetSession, history, logoutPc>>

\* the user authenticates at the provider, which redirects the browser to
\* `${window.location.origin}${redirectUrl}` with a new session
SignInSucceeds(session) ==
  /\ loginPc \notin {"idle"}
  /\ Len(history) < MaxHistory
  /\ provider' = session
  /\ history' = Append(history, Location(loginPc, Undefined))
  /\ MountAt
  /\ logoutPc' = "idle"

\* the Logout button: handleLogout up to `await supabase.auth.signOut()`
ClickLogout ==
  /\ ~IsNull(ctxSession)
  /\ CurrentLocation.path \in {"/", "/dashboard"}
  /\ logoutPc \in {"idle", "done", "rejected"}
  /\ logoutPc' = "awaiting"
  /\ UNCHANGED <<provider, ctxSession, ctxSubscribed, ctxGetSession, history, loginPc, toast>>

SignOutOutcomes == {"ok", "error", "throws"}

\* signOut settles: it removes the provider's session and notifies the
\* subscribers (SIGNED_OUT), or resolves with an error and keeps the
\* session, or rejects
SignOutSettles(outcome) ==
  /\ logoutPc = "awaiting"
  /\ CASE outcome = "ok" ->
            /\ provider' = NullSession
            /\ ctxSession' = IF ctxSubscribed THEN NullSession ELSE ctxSession
            /\ logoutPc' = "settled"
       [] outcome = "error" ->
            /\ logoutPc' = "settled"
            /\ UNCHANGED <<provider, ctxSession>>
       [] OTHER ->
            /\ logoutPc' = "rejected"
            /\ UNCHANGED <<provider, ctxSession>>
  /\ UNCHANGED <<ctxSubscribed, ctxGetSession, history, loginPc, toast>>

\* handleLogout after the await: setSession(null); window.location.href = "/"
LogoutContinues ==
  /\ logoutPc = "settled"
  /\ Len(history) < MaxHistory
  /\ UNCHANGED provider
  /\ history' = Append(history, Location("/", Undefined))
  /\ MountAt
  /\ logoutPc' = "done"


(***************************************************************************)
(* Component 5: the auth hooks' query cache (useAuthStateSync, useSession, *)
(* useUser)                                                                *)
(***************************************************************************)

MaxEvents == 3

\* authQueryKeys
AuthQueryKeysAll == <<"auth">>
AuthQueryKeysSession == AuthQueryKeysAll \o <<"session">>
AuthQueryKeysUser == AuthQueryKeysAll \o <<"user">>
AuthQueryKeys == {AuthQueryKeysSession, AuthQueryKeysUser}
AuthQueryKeysSessions == AuthQueryKeysAll \o <<"session">>
AuthQueryKeysUsers == AuthQueryKeysAll \o <<"user">>

NullUser == "null"

\* session?.user ?? null
UserOrNull(session) == IF IsNull(session) THEN NullUser ELSE session.user

\* queryClient.setQueryData(key, data)
SetQueryData(data, key, value) == [data EXCEPT ![key] = Defined(value)]

\* only the session key written
AuthStateSyncCallbackSessionOnly(data, session) ==
  SetQueryData(data, AuthQueryKeysSession, session)

\* the callback useAuthStateSync subscribes: both keys written from the
\* event's session
AuthStateSyncCallback(data, session) ==
  SetQueryData(SetQueryData(data, AuthQueryKeysSession, session),
               AuthQueryKeysUser, UserOrNull(session))

NoFetch == [defined |-> FALSE, value |-> <<>>]

\* the events the provider emits, with the session each carries
AuthEvents ==
  {[event |-> "SIGNED_OUT", session |-> NullSession]} \cup
  [event : {"SIGNED_IN", "TOKEN_REFRESHED"}, session : Sessions]

\* the function onAuthStateChange returns left without effect
UnsubscribeIgnored(subscribed) == subscribed

\* the function onAuthStateChange returns: subscription.unsubscribe()
Unsubscribe(subscribed) == FALSE

CacheInit ==
  /\ supabase \in {NullSession} \cup Sessions
  /\ queryData = [key \in AuthQueryKeys |-> Undefined]
  /\ syncSubscribed = FALSE
  /\ syncEffect = "idle"
  /\ callbackLog = <<>>
  /\ sessionFetch = NoFetch
  /\ userFetch = NoFetch

CacheIdle ==
  /\ supabase = NullSession
  /\ queryData = [key \in AuthQueryKeys |-> Undefined]
  /\ syncSubscribed = FALSE
  /\ syncEffect = "idle"
  /\ callbackLog = <<>>
  /\ sessionFetch = NoFetch
  /\ userFetch = NoFetch

\* useAuthStateSync's effect runs: onAuthStateChange(callback)
SyncSubscribe ==
  /\ syncEffect # "subscribed"
  /\ syncEffect' = "subscribed"
  /\ syncSubscribed' = TRUE
  /\ UNCHANGED <<supabase, queryData, callbackLog, sessionFetch, userFetch>>

\* the effect's cleanup runs: the function onAuthStateChange returned is
\* called
SyncUnsubscribe ==
  /\ syncEffect = "subscribed"
  /\ syncEffect' = "cleaned"
  /\ syncSubscribed' = Unsubscribe(syncSubscribed)
  /\ UNCHANGED <<supabase, queryData, callbackLog, sessionFetch, userFetch>>

\* the provider emits an auth state change; the wrapper passes the event
\* and its session to the subscribed callback, which writes the cache
AuthEvent(e) ==
  /\ Len(callbackLog) < MaxEvents
  /\ supabase' = e.session
  /\ IF syncSubscribed
       THEN /\ queryData' = AuthStateSyncCallback(queryData, e.session)
            /\ callbackLog' = Append(callbackLog, e)
       ELSE UNCHANGED <<queryData, callbackLog>>
  /\ UNCHANGED <<syncSubscribed, syncEffect, sessionFetch, userFetch>>

\* useSession's queryFn starts: getSession() reads the provider's session
SessionFetchStarts ==
  /\ ~sessionFetch.defined
  /\ sessionFetch' = Defined(supabase)
  /\ UNCHANGED <<supabase, queryData, syncSubscribed, syncEffect, callbackLog, userFetch>>

\* the queryFn settles: result.value is cached, or result.error is thrown
\* and the cached data stays
SessionFetchSettles(ok) ==
  /\ sessionFetch.defined
  /\ sessionFetch' = NoFetch
  /\ queryData' = IF ok THEN SetQueryData(queryData, AuthQueryKeysSession, sessionFetch.value)
                        ELSE queryData
  /\ UNCHANGED <<supabase, syncSubscribed, syncEffect, callbackLog, userFetch>>

\* useUser's queryFn starts: getUser() reads the provider's user
UserFetchStarts ==
  /\ ~userFetch.defined
  /\ userFetch' = Defined(UserOrNull(supabase))
  /\ UNCHANGED <<supabase, queryData, syncSubscribed, syncEffect, callbackLog, sessionFetch>>

UserFetchSettles(ok) ==
  /\ userFetch.defined
  /\ userFetch' = NoFetch
  /\ queryData' = IF ok THEN SetQueryData(queryData, AuthQueryKeysUser, userFetch.value)
                        ELSE queryData
  /\ UNCHANGED <<supabase, syncSubscribed, syncEffect, callbackLog, sessionFetch>>

(***************************************************************************)
(* Component 6: the auth hooks, composed (useSession, useUser, useSignIn,  *)
(* useSignOut, with useAuthStateSync at the root) and monolithic (the old  *)
(* useAuth), driven by the same provider                                   *)
(***************************************************************************)

MaxLog == 6

\* how a call to the provider's client ends
AuthOutcomes == {"ok", "error", "throwsError", "throwsOther"}
ProviderMessage == "network"
ThrownMessage == "Missing Supabase environment variables"

\* auth-service signOut: every path returns a Result, nothing is rethrown
SignOutService(outcome) ==
  CASE outcome = "ok"          -> ResolvedOk("undefined")
    [] outcome = "error"       -> ResolvedErr(ErrorOf(<<"Failed to sign out: ", ProviderMessage>>))
    [] outcome = "throwsError" -> ResolvedErr(ErrorOf(<<ThrownMessage>>))
    [] OTHER -> ResolvedErr(ErrorOf(<<"Unknown error occurred while signing out">>))

\* auth-service signInWithOAuth: every path returns a Result
SignInWithOAuthService(outcome) ==
  CASE outcome = "ok"          -> ResolvedOk("url")
    [] outcome = "error"       ->
         ResolvedErr(ErrorOf(<<"Failed to sign in with OAuth: ", ProviderMessage>>))
    [] outcome = "throwsError" -> ResolvedErr(ErrorOf(<<ThrownMessage>>))
    [] OTHER -> ResolvedErr(ErrorOf(<<"Unknown error occurred while signing in with OAuth">>))

\* useMutation: onSuccess when the mutationFn's promise resolves, onError
\* when it rejects
MutationCallback(promise) ==
  IF promise.state = "resolved" THEN "onSuccess" ELSE "onError"

IdleMutation == [status |-> "idle", settled |-> Pending]
PendingMutation == [status |-> "pending", settled |-> Pending]
SettledMutation(promise) ==
  [status |-> IF promise.state = "resolved" THEN "success" ELSE "error", settled |-> promise]

\* the values the log records for a cache write
LogValue(key, value) ==
  IF key = AuthQueryKeysSession THEN ToString(value.token) ELSE value
SetEntry(key, value) == [op |-> "setQueryData", key |-> key, value |-> LogValue(key, value)]
InvalidateEntry(key) == [op |-> "invalidateQueries", key |-> key, value |-> ""]

\* what getSession / getUser read from the provider for a query key
ProviderValue(session, key) ==
  IF key = AuthQueryKeysSession THEN session ELSE UserOrNull(session)

\* a freshly loaded page: empty query cache, both queries fetching
MountedHooks(session) ==
  [data |-> [key \in AuthQueryKeys |-> Undefined],
   fetch |-> [key \in AuthQueryKeys |-> Defined(ProviderValue(session, key))],
   signIn |-> IdleMutation,
   signOut |-> IdleMutation,
   log |-> <<>>,
   href |-> "",
   toast |-> NoToast]

\* queryClient.setQueryData, recorded
HookSetQueryData(h, key, value) ==
  [h EXCEPT !.data = SetQueryData(h.data, key, value),
            !.log = Append(h.log, SetEntry(key, value))]

\* query keys match a filter by prefix
MatchesQueryKey(key, filterKey) ==
  Len(filterKey) <= Len(key) /\ SubSeq(key, 1, Len(filterKey)) = filterKey

\* queryClient.invalidateQueries({ queryKey }): every active query the
\* filter matches refetches
HookInvalidateQueries(h, session, filterKey) ==
  [h EXCEPT !.fetch = [key \in AuthQueryKeys |->
                         IF MatchesQueryKey(key, filterKey)
                           THEN Defined(ProviderValue(session, key))
                           ELSE h.fetch[key]],
            !.log = Append(h.log, InvalidateEntry(filterKey))]

\* a queryFn settles: result.value is cached, or result.error is thrown
HookFetchSettles(h, key, ok) ==
  IF ~h.fetch[key].defined THEN h
  ELSE [h EXCEPT !.fetch = [h.fetch EXCEPT ![key] = NoFetch],
                 !.data = IF ok THEN SetQueryData(h.data, key, h.fetch[key].value)
                                ELSE h.data]

\* useQuery's isLoading: fetching with no data yet
IsLoading(h, key) == h.fetch[key].defined /\ ~h.data[key].defined

\* !!session
Truthy(sessionData) == sessionData.defined /\ ~IsNull(sessionData.value)

ErrorToast(error) == [shown |-> TRUE, message |-> error.message]

\* ---- composed: useAuthStateSync, useSignIn, useSignOut, useAuth ----

\* useAuthStateSync's callback on the hooks' query client
UseAuthStateSyncOnEvent(h, session) ==
  [h EXCEPT !.data = AuthStateSyncCallback(h.data, session),
            !.log = h.log \o <<SetEntry(AuthQueryKeysSession, session),
                               SetEntry(AuthQueryKeysUser, UserOrNull(session))>>]

\* only the session queries invalidated
UseSignInOnSuccessSessionsOnly(h, session) ==
  HookInvalidateQueries(h, session, AuthQueryKeysSessions)

\* useSignIn onSuccess
UseSignInOnSuccess(h, session) ==
  HookInvalidateQueries(HookInvalidateQueries(h, session, AuthQueryKeysSessions),
                        session, AuthQueryKeysUsers)

\* useSignIn: the mutation settles
UseSignInSettled(h, session, promise) ==
  LET after == IF MutationCallback(promise) = "onSuccess"
                 THEN UseSignInOnSuccess(h, session)
                 ELSE [h EXCEPT !.toast = ErrorToast(promise.error)]
  IN [after EXCEPT !.signIn = SettledMutation(promise)]

\* useSignOut onSuccess
UseSignOutOnSuccess(h) ==
  [HookSetQueryData(HookSetQueryData(h, AuthQueryKeysSession, NullSession),
                    AuthQueryKeysUser, NullUser)
     EXCEPT !.href = "/"]

\* useSignOut: the mutation settles
UseSignOutSettled(h, promise) ==
  LET after == IF MutationCallback(promise) = "onSuccess"
                 THEN UseSignOutOnSuccess(h)
                 ELSE [h EXCEPT !.toast = ErrorToast(promise.error)]
  IN [after EXCEPT !.signOut = SettledMutation(promise)]

\* useSession's return
UseSession(h) ==
  [session |-> h.data[AuthQueryKeysSession],
   isLoading |-> IsLoading(h, AuthQueryKeysSession),
   isAuthenticated |-> Truthy(h.data[AuthQueryKeysSession])]

\* useUser's return
UseUser(h) ==
  [user |-> h.data[AuthQueryKeysUser], isLoading |-> IsLoading(h, AuthQueryKeysUser)]

\* the composed useAuth's return
UseAuthComposed(h) ==
  [session |-> UseSession(h).session,
   user |-> UseUser(h).user,
   isLoading |-> UseSession(h).isLoading \/ UseUser(h).isLoading,
   isAuthenticated |-> UseSession(h).isAuthenticated,
   isSigningIn |-> h.signIn.status = "pending",
   isSigningOut |-> h.signOut.status = "pending"]

\* ---- monolithic: the old useAuth ----

AUTH_SESSION_KEY == <<"auth", "session">>
AUTH_USER_KEY == <<"auth", "user">>

\* the subscription callback of the old useAuth
UseAuthOnEvent(h, session) ==
  HookSetQueryData(HookSetQueryData(h, AUTH_SESSION_KEY, session),
                   AUTH_USER_KEY, UserOrNull(session))

\* the sign-in mutation of the old useAuth settles
UseAuthSignInSettled(h, session, promise) ==
  LET after == IF MutationCallback(promise) = "onSuccess"
                 THEN HookInvalidateQueries(
                        HookInvalidateQueries(h, session, AUTH_SESSION_KEY),
                        session, AUTH_USER_KEY)
                 ELSE [h EXCEPT !.toast = ErrorToast(promise.error)]
  IN [after EXCEPT !.signIn = SettledMutation(promise)]

\* the sign-out mutation of the old useAuth settles
UseAuthSignOutSettled(h, promise) ==
  LET after == IF MutationCallback(promise) = "onSuccess"
                 THEN [HookSetQueryData(HookSetQueryData(h, AUTH_SESSION_KEY, NullSession),
                                        AUTH_USER_KEY, NullUser)
                         EXCEPT !.href = "/"]
                 ELSE [h EXCEPT !.toast = ErrorToast(promise.error)]
  IN [after EXCEPT !.signOut = SettledMutation(promise)]

\* the old useAuth's return
UseAuthMonolithic(h) ==
  [session |-> h.data[AUTH_SESSION_KEY],
   user |-> h.data[AUTH_USER_KEY],
   isLoading |-> IsLoading(h, AUTH_SESSION_KEY) \/ IsLoading(h, AUTH_USER_KEY),
   isAuthenticated |-> Truthy(h.data[AUTH_SESSION_KEY]),
   isSigningIn |-> h.signIn.status = "pending",
   isSigningOut |-> h.signOut.status = "pending"]

\* ---- the two under the same provider ----

HooksInit ==
  /\ authSession \in {NullSession} \cup Sessions
  /\ composed = MountedHooks(authSession)
  /\ monolithic = MountedHooks(authSession)

HooksIdle ==
  /\ authSession = NullSession
  /\ composed = MountedHooks(NullSession)
  /\ monolithic = MountedHooks(NullSession)

LogRoom(n) == Len(composed.log) + n <= MaxLog /\ Len(monolithic.log) + n <= MaxLog

\* the provider emits an auth state change
HooksAuthEvent(session) ==
  /\ LogRoom(2)
  /\ session # authSession
  /\ authSession' = session
  /\ composed' = UseAuthStateSyncOnEvent(composed, session)
  /\ monolithic' = UseAuthOnEvent(monolithic, session)

\* getSession / getUser settles in the query function of a key
HooksFetchSettles(key, ok) ==
  /\ composed.fetch[key].defined \/ monolithic.fetch[key].defined
  /\ composed' = HookFetchSettles(composed, key, ok)
  /\ monolithic' = HookFetchSettles(monolithic, key, ok)
  /\ UNCHANGED authSession

\* login({ provider: "github" })
HooksLogin ==
  /\ composed.signIn.status # "pending" /\ monolithic.signIn.status # "pending"
  /\ composed' = [composed EXCEPT !.signIn = PendingMutation]
  /\ monolithic' = [monolithic EXCEPT !.signIn = PendingMutation]
  /\ UNCHANGED authSession

\* signInWithOAuth settles
HooksLoginSettles(outcome) ==
  /\ composed.signIn.status = "pending" \/ monolithic.signIn.status = "pending"
  /\ LogRoom(2)
  /\ composed' = UseSignInSettled(composed, authSession, SignInWithOAuthService(outcome))
  /\ monolithic' = UseAuthSignInSettled(monolithic, authSession,
                                        SignInWithOAuthService(outcome))
  /\ UNCHANGED authSession

\* logout()
HooksLogout ==
  /\ composed.signOut.status # "pending" /\ monolithic.signOut.status # "pending"
  /\ composed' = [composed EXCEPT !.signOut = PendingMutation]
  /\ monolithic' = [monolithic EXCEPT !.signOut = PendingMutation]
  /\ UNCHANGED authSession

\* signOut settles: on "ok" the provider has dropped its session and
\* notified the subscribers (SIGNED_OUT) before the promise resolves
HooksLogoutSettles(outcome) ==
  /\ composed.signOut.status = "pending" \/ monolithic.signOut.status = "pending"
  /\ LogRoom(4)
  /\ authSession' = IF outcome = "ok" THEN NullSession ELSE authSession
  /\ composed' = UseSignOutSettled(
                   IF outcome = "ok" /\ ~IsNull(authSession)
                     THEN UseAuthStateSyncOnEvent(composed, NullSession) ELSE composed,
                   SignOutService(outcome))
  /\ monolithic' = UseAuthSignOutSettled(
                     IF outcome = "ok" /\ ~IsNull(authSession)
                       THEN UseAuthOnEvent(monolithic, NullSession) ELSE monolithic,
                     SignOutService(outcome))

\* window.location.href = "/" takes effect: the page loads anew
HooksReload ==
  /\ composed.href # "" \/ monolithic.href # ""
  /\ composed' = [MountedHooks(authSession) EXCEPT !.log = composed.log]
  /\ monolithic' = [MountedHooks(authSession) EXCEPT !.log = monolithic.log]
  /\ UNCHANGED authSession

(***************************************************************************)
(* Component 7: the routes guarded by a clientLoader (index and login)     *)
(***************************************************************************)

MaxNavigations == 3

Users == {"alice", "bob"}
LoaderRoutes == {"/", "/login"}

\* auth-service getUser: the Result for how supabase.auth.getUser() ended
GetUserService(outcome, user) ==
  CASE outcome = "ok"          -> ResolvedOk(user)
    [] outcome = "error"       -> ResolvedErr(ErrorOf(<<"Failed to get user: ", ProviderMessage>>))
    [] outcome = "throwsError" -> ResolvedErr(ErrorOf(<<ThrownMessage>>))
    [] OTHER -> ResolvedErr(ErrorOf(<<"Unknown error occurred while getting user">>))

Redirect(to) == [redirect |-> TRUE, to |-> to, user |-> NullUser]
LoaderData(user) == [redirect |-> FALSE, to |-> "", user |-> user]

\* routes/_index.tsx clientLoader
ClientLoaderIndex(result) ==
  IF ~result.ok THEN Redirect("/login") ELSE LoaderData(result.value)

\* routes/_auth.tsx clientLoader: return null when there is no redirect
ClientLoaderAuth(result) ==
  IF result.ok THEN Redirect("/") ELSE LoaderData(NullUser)

ClientLoader(path, result) ==
  IF path = "/" THEN ClientLoaderIndex(result) ELSE ClientLoaderAuth(result)

NoNavigation == [loading |-> FALSE, path |-> ""]

LoaderInit ==
  /\ loaderUser \in {NullUser} \cup Users
  /\ loaderNav = NoNavigation
  /\ loaderHistory = <<>>

LoaderIdle ==
  /\ loaderUser = NullUser
  /\ loaderNav = NoNavigation
  /\ loaderHistory = <<>>

\* the user opens a route: its clientLoader starts with `await getUser()`
OpenRoute(path) ==
  /\ ~loaderNav.loading
  /\ Len(loaderHistory) < MaxNavigations
  /\ loaderNav' = [loading |-> TRUE, path |-> path]
  /\ UNCHANGED <<loaderUser, loaderHistory>>

\* getUser settles and the loader returns: a redirect starts the loader of
\* its target, anything else renders the route with the loader's data
LoaderReturns(outcome) ==
  /\ loaderNav.loading
  /\ LET returned == ClientLoader(loaderNav.path, GetUserService(outcome, loaderUser)) IN
     IF returned.redirect
       THEN /\ loaderNav' = [loading |-> TRUE, path |-> returned.to]
            /\ UNCHANGED loaderHistory
       ELSE /\ loaderNav' = NoNavigation
            /\ loaderHistory' = Append(loaderHistory,
                                       [path |-> loaderNav.path, user |-> returned.user])
  /\ UNCHANGED loaderUser

\* the provider's user changes: sign-in, sign-out, expiry
ProviderUserChanges(user) ==
  /\ user # loaderUser
  /\ loaderUser' = user
  /\ UNCHANGED <<loaderNav, loaderHistory>>

(***************************************************************************)
(* Specifications                                                          *)
(***************************************************************************)

notTransformVars == <<svcVars, pgVars, ctxVars, cacheVars, hookVars, loaderVars>>
notSvcVars == <<transformVars, pgVars, ctxVars, cacheVars, hookVars, loaderVars>>
notPgVars == <<transformVars, svcVars, ctxVars, cacheVars, hookVars, loaderVars>>
notCtxVars == <<transformVars, svcVars, pgVars, cacheVars, hookVars, loaderVars>>
notCacheVars == <<transformVars, svcVars, pgVars, ctxVars, hookVars, loaderVars>>
notHookVars == <<transformVars, svcVars, pgVars, ctxVars, cacheVars, loaderVars>>
notLoaderVars == <<transformVars, svcVars, pgVars, ctxVars, cacheVars, hookVars>>

InitTransform ==
  TransformInit /\ SvcIdle /\ PgIdle /\ CtxIdle /\ CacheIdle /\ HooksIdle /\ LoaderIdle
NextTransform ==
  \/ Transform /\ UNCHANGED notTransformVars
SpecTransform == InitTransform /\ [][NextTransform]_vars

InitService ==
  SvcInit /\ TransformIdle /\ PgIdle /\ CtxIdle /\ CacheIdle /\ HooksIdle /\ LoaderIdle
NextService ==
  \/ (\E options \in SearchOptionsPool : SearchBooks(options)) /\ UNCHANGED notSvcVars
  \/ (\E response \in HttpResponses : FetchResolves(response)) /\ UNCHANGED notSvcVars
  \/ (\E thrown \in ThrownPool : FetchThrows(thrown)) /\ UNCHANGED notSvcVars
  \/ (\E raw \in RawPool(svcAdapter) : JsonResolves(raw)) /\ UNCHANGED notSvcVars
  \/ (\E thrown \in ThrownPool : JsonThrows(thrown)) /\ UNCHANGED notSvcVars
SpecService == InitService /\ [][NextService]_vars

InitPaging ==
  PgInit /\ TransformIdle /\ SvcIdle /\ CtxIdle /\ CacheIdle /\ HooksIdle /\ LoaderIdle
NextPaging ==
  \/ InitialFetch /\ UNCHANGED notPgVars
  \/ FetchNextPage /\ UNCHANGED notPgVars
  \/ RequestResolves /\ UNCHANGED notPgVars
  \/ RequestFails /\ UNCHANGED notPgVars
  \/ (\E q \in Queries, cat \in Catalogues : ChangeQuery(q, cat)) /\ UNCHANGED notPgVars
SpecPaging == InitPaging /\ [][NextPaging]_vars

\* paging where every request succeeds and the next page is requested
\* whenever there is one
NextPagingLive ==
  \/ InitialFetch /\ UNCHANGED notPgVars
  \/ FetchNextPage /\ UNCHANGED notPgVars
  \/ RequestResolves /\ UNCHANGED notPgVars
FairPaging ==
  /\ WF_vars(InitialFetch /\ UNCHANGED notPgVars)
  /\ WF_vars(FetchNextPage /\ UNCHANGED notPgVars)
  /\ WF_vars(RequestResolves /\ UNCHANGED notPgVars)
SpecPagingLive == InitPaging /\ [][NextPagingLive]_vars /\ FairPaging

InitContext ==
  CtxInit /\ TransformIdle /\ SvcIdle /\ PgIdle /\ CacheIdle /\ HooksIdle /\ LoaderIdle
NextContext ==
  \/ (\E path \in Paths, redirectTo \in RedirectParams : Visit(path, redirectTo))
       /\ UNCHANGED notCtxVars
  \/ GetSessionResolves /\ UNCHANGED notCtxVars
  \/ (\E session \in {NullSession} \cup Sessions : AuthStateChange(session))
       /\ UNCHANGED notCtxVars
  \/ ProtectedRouteNavigate /\ UNCHANGED notCtxVars
  \/ LoginPageNavigate /\ UNCHANGED notCtxVars
  \/ (\E useAuth \in UseAuthImpls : ClickLogin(useAuth)) /\ UNCHANGED notCtxVars
  \/ SignInFails /\ UNCHANGED notCtxVars
  \/ (\E session \in Sessions : SignInSucceeds(session)) /\ UNCHANGED notCtxVars
  \/ ClickLogout /\ UNCHANGED notCtxVars
  \/ (\E outcome \in SignOutOutcomes : SignOutSettles(outcome))
       /\ UNCHANGED notCtxVars
  \/ LogoutContinues /\ UNCHANGED notCtxVars
SpecContext == InitContext /\ [][NextContext]_vars

InitCache ==
  CacheInit /\ TransformIdle /\ SvcIdle /\ PgIdle /\ CtxIdle /\ HooksIdle /\ LoaderIdle
NextCache ==
  \/ SyncSubscribe /\ UNCHANGED notCacheVars
  \/ SyncUnsubscribe /\ UNCHANGED notCacheVars
  \/ (\E e \in AuthEvents : AuthEvent(e)) /\ UNCHANGED notCacheVars
  \/ SessionFetchStarts /\ UNCHANGED notCacheVars
  \/ (\E ok \in BOOLEAN : SessionFetchSettles(ok)) /\ UNCHANGED notCacheVars
  \/ UserFetchStarts /\ UNCHANGED notCacheVars
  \/ (\E ok \in BOOLEAN : UserFetchSettles(ok)) /\ UNCHANGED notCacheVars
SpecCache == InitCache /\ [][NextCache]_vars

InitHooks ==
  HooksInit /\ TransformIdle /\ SvcIdle /\ PgIdle /\ CtxIdle /\ CacheIdle /\ LoaderIdle
NextHooks ==
  \/ (\E session \in {NullSession} \cup Sessions : HooksAuthEvent(session))
       /\ UNCHANGED notHookVars
  \/ (\E key \in AuthQueryKeys, ok \in BOOLEAN : HooksFetchSettles(key, ok))
       /\ UNCHANGED notHookVars
  \/ HooksLogin /\ UNCHANGED notHookVars
  \/ (\E outcome \in AuthOutcomes : HooksLoginSettles(outcome)) /\ UNCHANGED notHookVars
  \/ HooksLogout /\ UNCHANGED notHookVars
  \/ (\E outcome \in AuthOutcomes : HooksLogoutSettles(outcome)) /\ UNCHANGED notHookVars
  \/ HooksReload /\ UNCHANGED notHookVars
SpecHooks == InitHooks /\ [][NextHooks]_vars

InitLoaders ==
  LoaderInit /\ TransformIdle /\ SvcIdle /\ PgIdle /\ CtxIdle /\ CacheIdle /\ HooksIdle
NextLoaders ==
  \/ (\E path \in LoaderRoutes : OpenRoute(path)) /\ UNCHANGED notLoaderVars
  \/ (\E outcome \in AuthOutcomes : LoaderReturns(outcome)) /\ UNCHANGED notLoaderVars
  \/ (\E user \in {NullUser} \cup Users : ProviderUserChanges(user))
       /\ UNCHANGED notLoaderVars
SpecLoaders == InitLoaders /\ [][NextLoaders]_vars

(***************************************************************************)
(* C1                                                                      *)
(***************************************************************************)

Transformed == volume # NoVolume

\* C1 (as stated): every ISBN string of the document with exactly 13
\* characters is emitted as an identifier of type "ISBN_13" and every one
\* with exactly 10 characters as "ISBN_10", the identifier being the ISBN
\* string unchanged.
C1_EveryIsbnEmitted ==
  (Transformed /\ doc.isbn.defined) =>
    /\ volume.industryIdentifiers.defined
    /\ \A i \in 1..Len(doc.isbn.value) :
         LET s == doc.isbn.value[i]
             out == volume.industryIdentifiers.value
         IN /\ Len(s) = 13 =>
                 \E j \in 1..Len(out) : out[j] = [type |-> "ISBN_13", identifier |-> s]
            /\ Len(s) = 10 =>
                 \E j \in 1..Len(out) : out[j] = [type |-> "ISBN_10", identifier |-> s]

\* C1 (amended): the identifiers are exactly the first five ISBN strings of
\* the document, in order and unchanged; among them a 13-character string
\* has type "ISBN_13" and a 10-character string has type "ISBN_10".
C1_FirstFiveIsbnClassified ==
  (Transformed /\ doc.isbn.defined) =>
    LET out == volume.industryIdentifiers IN
    /\ out.defined
    /\ Len(out.value) = (IF Len(doc.isbn.value) < 5 THEN Len(doc.isbn.value) ELSE 5)
    /\ \A i \in 1..Len(out.value) :
         /\ out.value[i].identifier = doc.isbn.value[i]
         /\ Len(doc.isbn.value[i]) = 13 => out.value[i].type = "ISBN_13"
         /\ Len(doc.isbn.value[i]) = 10 => out.value[i].type = "ISBN_10"

\* a document with more than five ISBNs, of both lengths among the first
\* five, has been transformed
C1_Witness ==
  /\ Transformed
  /\ doc.isbn.defined
  /\ Len(doc.isbn.value) > 5
  /\ \E i, j \in 1..5 : Len(doc.isbn.value[i]) = 13 /\ Len(doc.isbn.value[j]) = 10

(***************************************************************************)
(* C3                                                                      *)
(***************************************************************************)

\* the HTTP response was ok and its body failed schema validation
MalformedResponse ==
  /\ svcPc = "done"
  /\ svcResponse.ok
  /\ svcRaw.read
  /\ ~SafeParseSuccess(svcAdapter, svcRaw.data)

\* C3: when the HTTP response is ok but schema validation fails, searchBooks
\* resolves (does not reject) to {ok: false, error} whose message starts
\* with "Invalid API response", for every adapter.
C3_MalformedIsErrorResult ==
  MalformedResponse =>
    /\ svcResult.state = "resolved"
    /\ ~svcResult.ok
    /\ svcResult.error.isError
    /\ Head(svcResult.error.message) = "Invalid API response: "

\* an ok response of the bookService adapter failed validation
C3_Witness ==
  /\ MalformedResponse
  /\ svcAdapter = "bookService"
  /\ ~svcRaw.data.num_found.defined
  /\ svcResult.state = "resolved"

(***************************************************************************)
(* C2                                                                      *)
(***************************************************************************)

\* C2: while the query (or title) of a search hook is empty the query
\* function is never invoked, whatever the enabled option: no request is
\* in flight, none has been made for the empty query, and no logged request
\* carries an empty query.
C2_EmptyQueryNeverFetches ==
  /\ Len(pgOptions.query) = 0 => (~pgFetching.active /\ requests = <<>>)
  /\ \A i \in 1..Len(requests) : Len(requests[i].query) > 0

\* an infinite title search whose title was emptied while enabled is true
C2_Witness ==
  /\ pgHook = "useInfiniteBooksByTitle"
  /\ Len(pgOptions.query) = 0
  /\ pgOptions.enabled = Defined(TRUE)
  /\ Len(catalogue) > 0
  /\ requests = <<>>

(***************************************************************************)
(* C4                                                                      *)
(***************************************************************************)

\* C4: after any sequence of page loads of an infinite hook, there is no
\* next page (getNextPageParam returns undefined, and fetchNextPage issues
\* no request) if and only if the number of accumulated items is greater
\* than or equal to the last page's totalItems.
C4_StopsAtTotalItems ==
  (pgHook \in InfiniteHooks /\ pages # <<>>) =>
    /\ ~HasNextPage <=> Len(AllBooks) >= pages[Len(pages)].totalItems
    /\ ~HasNextPage => ~ENABLED FetchNextPage

\* two pages were loaded and pagination stopped exactly at totalItems
C4_Witness ==
  /\ pgHook \in InfiniteHooks
  /\ Len(pages) >= 2
  /\ ~HasNextPage
  /\ Len(AllBooks) = pages[Len(pages)].totalItems

(***************************************************************************)
(* C5                                                                      *)
(***************************************************************************)

NoDuplicateIds(books) ==
  \A i, j \in 1..Len(books) : i # j => books[i].id # books[j].id

IsPrefix(a, b) == Len(a) <= Len(b) /\ SubSeq(b, 1, Len(a)) = a

\* C5: in the flattened list of books of an infinite search no two items
\* have the same id, and a page load keeps the items of earlier pages at
\* their positions.
C5_AppendsNonDuplicates ==
  /\ [](pgHook \in InfiniteHooks => NoDuplicateIds(AllBooks))
  /\ [][RequestResolves => IsPrefix(AllBooks, AllBooks')]_vars

(***************************************************************************)
(* C6                                                                      *)
(***************************************************************************)

SyncEventDelivered ==
  /\ syncSubscribed
  /\ \E e \in AuthEvents : AuthEvent(e)

CachedSession == queryData[AuthQueryKeysSession]
CachedUser == queryData[AuthQueryKeysUser]

\* C6: after every auth state change delivered while the sync subscription
\* is active, the data cached under ["auth","session"] is the session the
\* event carried and the data cached under ["auth","user"] is that
\* session's user, or null when the session is null; so the cached user is
\* not non-null while the cached session is null.
C6_CacheMirrorsEvent ==
  [][SyncEventDelivered =>
      /\ AuthQueryKeysSession = <<"auth", "session">>
      /\ AuthQueryKeysUser = <<"auth", "user">>
      /\ CachedSession'.defined /\ CachedSession'.value = supabase'
      /\ callbackLog'[Len(callbackLog')].session = supabase'
      /\ CachedUser'.defined
      /\ CachedUser'.value = (IF supabase'.token = 0 THEN NullUser ELSE supabase'.user)
      /\ ~(CachedSession'.value.token = 0 /\ CachedUser'.value # NullUser)]_vars

\* the cache holds the session and user of a delivered event that replaced
\* an earlier one
C6_Witness ==
  /\ syncSubscribed
  /\ Len(callbackLog) >= 2
  /\ callbackLog[Len(callbackLog)].session = supabase
  /\ ~IsNull(supabase)
  /\ CachedSession.defined /\ CachedSession.value = supabase
  /\ CachedUser.defined /\ CachedUser.value = supabase.user

(***************************************************************************)
(* C7                                                                      *)
(***************************************************************************)

OnDashboard == CurrentLocation.path = "/dashboard"
OnLogin == CurrentLocation.path = "/login"

\* C7: on the protected route the children are rendered only when the
\* context holds a non-null session; whenever the session is null the route
\* renders a replace-navigation to /login, and that navigation is taken.
C7_ProtectedRouteGuards ==
  OnDashboard =>
    LET r == ProtectedRoute(ctxSession) IN
    /\ r.element = "children" <=> ~IsNull(ctxSession)
    /\ IsNull(ctxSession) =>
         /\ r.element = "Navigate" /\ r.to = "/login" /\ r.replace
         /\ ENABLED ProtectedRouteNavigate
    /\ ~IsNull(ctxSession) => ~ENABLED ProtectedRouteNavigate

\* the dashboard is shown to a user whose session arrived from the provider
C7_Witness ==
  /\ OnDashboard
  /\ ~IsNull(ctxSession)
  /\ ctxSession = provider
  /\ ProtectedRoute(ctxSession).element = "children"

(***************************************************************************)
(* C8                                                                      *)
(***************************************************************************)

\* C8: on /login, whenever the session is non-null the login form is not
\* rendered and the page navigates with replace to the redirectTo parameter
\* if present and non-empty, otherwise to /dashboard; when the session is
\* null the form is rendered and the page does not navigate.
C8_LoginPageRedirects ==
  OnLogin =>
    LET r == LoginPage(ctxSession, CurrentLocation.redirectTo)
        param == CurrentLocation.redirectTo
    IN
    /\ ~IsNull(ctxSession) =>
         /\ r.element # "LoginForm"
         /\ r.navigate.defined
         /\ r.replace
         /\ (param.defined /\ param.value # "") => r.navigate.value = param.value
         /\ ~(param.defined /\ param.value # "") => r.navigate.value = "/dashboard"
         /\ ENABLED LoginPageNavigate
    /\ IsNull(ctxSession) =>
         /\ r.element = "LoginForm"
         /\ ~r.navigate.defined
         /\ ~ENABLED LoginPageNavigate

\* an authenticated user is on /login?redirectTo=/
C8_Witness ==
  /\ OnLogin
  /\ ~IsNull(ctxSession)
  /\ CurrentLocation.redirectTo.defined
  /\ CurrentLocation.redirectTo.value = "/"

(***************************************************************************)
(* C9                                                                      *)
(***************************************************************************)

\* C9: the redirect an unauthenticated user gets on /dashboard leads to
\* /login?redirectTo=/dashboard, and a successful authentication ends on
\* /dashboard.
C9_DeepLinkFlow ==
  /\ [][ProtectedRouteNavigate =>
          /\ CurrentLocation'.path = "/login"
          /\ CurrentLocation'.redirectTo.defined
          /\ CurrentLocation'.redirectTo.value = "/dashboard"]_vars
  /\ [][(\E session \in Sessions : SignInSucceeds(session)) =>
          CurrentLocation'.path = "/dashboard"]_vars

(***************************************************************************)
(* C10                                                                     *)
(***************************************************************************)

\* C10: when logout() completes the provider's session is cleared, the
\* context's session is null and the location is "/"; and the steps of
\* logout() up to the settling of signOut do not null the context's session
\* unless the provider's session is cleared.
C10_LogoutFlow ==
  /\ [][LogoutContinues =>
          /\ IsNull(provider')
          /\ IsNull(ctxSession')
          /\ CurrentLocation'.path = "/"]_vars
  /\ [][(ClickLogout \/ \E outcome \in SignOutOutcomes : SignOutSettles(outcome))
          => (ctxSession' = ctxSession \/ IsNull(provider'))]_vars

(***************************************************************************)
(* C11                                                                     *)
(***************************************************************************)

CacheCleared(h) ==
  /\ h.data[AuthQueryKeysSession].defined /\ IsNull(h.data[AuthQueryKeysSession].value)
  /\ h.data[AuthQueryKeysUser].defined /\ h.data[AuthQueryKeysUser].value = NullUser

\* C11: when the sign-out service call succeeds the cached session and
\* user are both null and the location is "/"; when it fails the cached
\* session and user are unchanged, there is no redirect, and the toast
\* shows the failure message.  For useSignOut and for the old useAuth.
C11_SignOutSuccessOnly ==
  [][\A outcome \in AuthOutcomes :
       HooksLogoutSettles(outcome) =>
         LET result == SignOutService(outcome) IN
         IF result.ok
           THEN /\ CacheCleared(composed') /\ composed'.href = "/"
                /\ CacheCleared(monolithic') /\ monolithic'.href = "/"
           ELSE /\ composed'.data = composed.data
                /\ composed'.href = composed.href
                /\ composed'.toast = ErrorToast(result.error)
                /\ monolithic'.data = monolithic.data
                /\ monolithic'.href = monolithic.href
                /\ monolithic'.toast = ErrorToast(result.error)]_vars

(***************************************************************************)
(* C12                                                                     *)
(***************************************************************************)

Refetching(h) == \A key \in AuthQueryKeys : h.fetch[key].defined

\* C12: when signInWithOAuth succeeds the session and user queries are
\* invalidated; when it fails (the provider returns an error or the call
\* throws) no auth query is invalidated and the toast shows the failure
\* message.  For useSignIn and for the old useAuth.
C12_SignInInvalidatesOnSuccessOnly ==
  [][\A outcome \in AuthOutcomes :
       HooksLoginSettles(outcome) =>
         LET result == SignInWithOAuthService(outcome) IN
         IF result.ok
           THEN /\ composed'.log = composed.log \o
                     <<InvalidateEntry(<<"auth", "session">>), InvalidateEntry(<<"auth", "user">>)>>
                /\ Refetching(composed')
                /\ monolithic'.log = composed'.log
                /\ Refetching(monolithic')
           ELSE /\ composed'.log = composed.log
                /\ composed'.fetch = composed.fetch
                /\ composed'.toast = ErrorToast(result.error)
                /\ monolithic'.log = monolithic.log
                /\ monolithic'.fetch = monolithic.fetch
                /\ monolithic'.toast = ErrorToast(result.error)]_vars

(***************************************************************************)
(* C13                                                                     *)
(***************************************************************************)

SameData(a, b) == a.defined = b.defined /\ (a.defined => a.value = b.value)

\* C13: driven by the same getSession/getUser outcomes, auth events, login
\* and logout calls, the composed useAuth (with useAuthStateSync mounted)
\* and the old useAuth return the same session, user, isLoading,
\* isAuthenticated, isSigningIn and isSigningOut, and have performed the
\* same cache writes and invalidations.
C13_ComposedEqualsMonolithic ==
  LET c == UseAuthComposed(composed)
      m == UseAuthMonolithic(monolithic)
  IN
  /\ SameData(c.session, m.session)
  /\ SameData(c.user, m.user)
  /\ c.isLoading = m.isLoading
  /\ c.isAuthenticated = m.isAuthenticated
  /\ c.isSigningIn = m.isSigningIn
  /\ c.isSigningOut = m.isSigningOut
  /\ composed.log = monolithic.log

\* an authenticated session is returned after an auth event wrote the cache
\* and a settled login invalidated the queries
C13_Witness ==
  /\ UseAuthComposed(composed).isAuthenticated
  /\ UseAuthMonolithic(monolithic).isAuthenticated
  /\ composed.signIn.status = "success"
  /\ \E i \in 1..Len(composed.log) : composed.log[i].op = "setQueryData"
  /\ \E i \in 1..Len(composed.log) : composed.log[i].op = "invalidateQueries"
  /\ \E i \in 1..Len(monolithic.log) : monolithic.log[i].op = "invalidateQueries"

(***************************************************************************)
(* C14                                                                     *)
(***************************************************************************)

\* C14: every auth state change that occurs after subscribing and before
\* the returned function is called invokes the callback exactly once with
\* that event and session; no event occurring before subscribing or after
\* the returned function has been called invokes the callback.
C14_CallbackWhileSubscribed ==
  [][\A e \in AuthEvents :
       AuthEvent(e) =>
         IF syncEffect = "subscribed"
           THEN callbackLog' = Append(callbackLog, e)
           ELSE callbackLog' = callbackLog]_vars

\* an event was delivered while subscribed and the subscription has been
\* cleaned up since, with the provider's session changed after that
C14_Witness ==
  /\ syncEffect = "cleaned"
  /\ ~syncSubscribed
  /\ Len(callbackLog) >= 1
  /\ callbackLog[Len(callbackLog)].session # supabase

(***************************************************************************)
(* C15                                                                     *)
(***************************************************************************)

\* C15: the index route is rendered with the dashboard data only for an
\* authenticated (non-null) user; in every other case, a getUser that
\* resolves ok with a null user included, its loader redirects to /login.
C15_IndexLoaderGuards ==
  /\ [](\A i \in 1..Len(loaderHistory) :
          loaderHistory[i].path = "/" => loaderHistory[i].user \in Users)
  /\ [][\A outcome \in AuthOutcomes :
          (/\ LoaderReturns(outcome)
           /\ loaderNav.path = "/"
           /\ ~(GetUserService(outcome, loaderUser).ok /\ loaderUser \in Users))
          => (loaderNav' = [loading |-> TRUE, path |-> "/login"]
              /\ loaderHistory' = loaderHistory)]_vars

(***************************************************************************)
(* C16                                                                     *)
(***************************************************************************)

\* C16: searchBooks never rejects; once it has returned, the result is
\* {ok: true} exactly when fetch resolved with an ok response, the body
\* was read as JSON and the schema validation succeeded; a non-ok status
\* gives the "API request failed with status" error with the body never
\* read; a value thrown by fetch or response.json() gives an error result
\* carrying it when it is an Error and the generic "Unknown error" Error
\* otherwise.
C16_ResultUnion ==
  /\ [](/\ svcResult.state # "rejected"
        /\ svcPc = "done" =>
             /\ svcResult.state = "resolved"
             /\ svcResult.ok <=>
                  (/\ svcResponse.ok
                   /\ svcRaw.read
                   /\ SafeParseSuccess(svcAdapter, svcRaw.data))
             /\ (svcResponse # NoResponse /\ ~svcResponse.ok) =>
                  /\ ~svcRaw.read
                  /\ svcResult = ResolvedErr(ErrorOf(<<"API request failed with status ",
                                                       svcResponse.status>>)))
  /\ [][\A thrown \in ThrownPool :
          (FetchThrows(thrown) \/ JsonThrows(thrown)) =>
             /\ svcPc' = "done"
             /\ svcResult'.state = "resolved" /\ ~svcResult'.ok
             /\ svcResult'.error.isError
             /\ svcResult'.error =
                  (IF thrown.isError THEN thrown
                   ELSE ErrorOf(<<"Unknown error occurred while searching books">>))]_vars

\* response.json() threw an Error after an ok response and searchBooks
\* returned the error result carrying it
C16_Witness ==
  /\ svcPc = "done"
  /\ svcResponse.ok
  /\ ~svcRaw.read
  /\ svcResult.state = "resolved"
  /\ ~svcResult.ok
  /\ svcResult.error = ErrorOf(<<"Failed to fetch">>)

(***************************************************************************)
(* C17                                                                     *)
(***************************************************************************)

LastRequest(log) == log[Len(log)]

SameSearch(a, b) ==
  /\ a.query = b.query
  /\ a.field = b.field
  /\ a.sort = b.sort
  /\ a.maxResults = b.maxResults

\* C17: in the infinite hooks the first page is requested with startIndex
\* 0, every later page request carries the number of items in all pages
\* loaded so far, and the query, field, sort and maxResults are the same
\* for every page of one search.
C17_StartIndexIsLoadedItems ==
  /\ [][(pgHook \in InfiniteHooks /\ InitialFetch) =>
          /\ Len(requests') = 1
          /\ LastRequest(requests').startIndex = Defined(0)]_vars
  /\ [][FetchNextPage =>
          /\ Len(requests') = Len(requests) + 1
          /\ LastRequest(requests').startIndex = Defined(LoadedItems(pages))]_vars
  /\ [](pgHook \in InfiniteHooks =>
          \A i \in 1..Len(requests) :
            /\ SameSearch(requests[i], requests[1])
            /\ requests[i].query = pgOptions.query
            /\ requests[i].maxResults = pgOptions.maxResults)

\* a second page was requested at the offset the first page's items gave
C17_Witness ==
  /\ pgHook \in InfiniteHooks
  /\ Len(pages) >= 2
  /\ Len(requests) >= 2
  /\ requests[1].startIndex = Defined(0)
  /\ requests[2].startIndex = Defined(ItemsLength(pages[1]))
  /\ ItemsLength(pages[1]) > 0

(***************************************************************************)
(* C18                                                                     *)
(***************************************************************************)

\* C18: when the next page is requested whenever hasNextPage is true and
\* every request succeeds, hasNextPage eventually becomes false for good
\* with no request in flight; and no next-page request repeats the offset
\* of the request before it.
C18_PaginationTerminates ==
  /\ (pgHook \in InfiniteHooks /\ HookEnabled(pgOptions.enabled, pgOptions.query))
       => <>[](pages # <<>> /\ ~HasNextPage /\ ~pgFetching.active)
  /\ [][FetchNextPage =>
          LastRequest(requests').startIndex.value > LastRequest(requests).startIndex.value]_vars

(***************************************************************************)
(* C19                                                                     *)
(***************************************************************************)

\* C19: once the initial getSession() has resolved and no callback is
\* pending, the context's session is the provider's current session; and
\* the resolution of the initial getSession() does not replace a session
\* an auth state change delivered with an older one.
C19_SessionConverges ==
  /\ []((~ctxGetSession.defined /\ logoutPc # "settled") => ctxSession = provider)
  /\ [][GetSessionResolves => ctxSession' = provider']_vars

====
